---------------------------- MODULE Spec2Model ----------------------------
(***************************************************************************)
(* A model of tracktion_engine's InsertPlugin (send/return insert):        *)
(* device enumeration and capability resolution, the per-block            *)
(* applyToBuffer algorithm, and the device-I/O accessors fillSendBuffer    *)
(* and fillReturnBuffer, together with the bufferLock that serialises     *)
(* them; and of AuxSendPlugin's gain and mute calls.                       *)
(***************************************************************************)
EXTENDS Integers, Sequences, FiniteSets, TLC

(***************************************************************************)
(* Bounds of the model.                                                    *)
(***************************************************************************)
\* the device manager holds at most this many devices (inputs + outputs)
MaxDevices == 2
\* initialise is given a block size of 1..MaxBlockSize samples
MaxBlockSize == 2
\* the audio buffers callers hand in have 1..MaxFrames frames
MaxFrames == 2
\* a run creates at most this many MIDI events
MaxEvents == 3
\* in the audio runs the device input pushes MIDI only while returnMidiBuffer
\* holds fewer than this many events
MaxPending == 1

(***************************************************************************)
(* Program state.                                                          *)
(***************************************************************************)
VARIABLES
    inputDevices,       \* DeviceManager: its input devices, in order
    outputDevices,      \* DeviceManager: its output devices, in order
    state,              \* the plugin's ValueTree: property id -> value
    inputDevice,        \* CachedValue<String> inputDevice
    outputDevice,       \* CachedValue<String> outputDevice
    returnDeviceType,   \* DeviceType resolved for the return direction
    sendDeviceType,     \* DeviceType resolved for the send direction
    enumResult,         \* the caller's arrays after getPossibleDeviceNames
    lastOp,             \* name of the most recent routing call
    lastArg,            \* its arguments
    ranUpdate,          \* whether that call ran updateDeviceTypes
    sendBuffer,         \* choc ChannelArrayBuffer<float> sendBuffer
    returnBuffer,       \* choc ChannelArrayBuffer<float> returnBuffer
    sendMidiBuffer,     \* MidiMessageArray sendMidiBuffer
    returnMidiBuffer,   \* MidiMessageArray returnMidiBuffer
    nextId,             \* number of MIDI events created so far
    pushed,             \* events fillReturnBuffer merged into returnMidiBuffer
    liveLog,            \* events the restore step put into live MIDI lists
    deviceLog,          \* events fillSendBuffer handed to the device output
    captured,           \* the live MIDI list of the latest MIDI capture
    discarded,          \* events deinitialise cleared from returnMidiBuffer
    sinceBlock,         \* events pushed since the latest applyToBuffer call
    sinceDrain,         \* events pushed since returnMidiBuffer was last emptied
    bufferLock,         \* juce::CriticalSection bufferLock: the thread holding it
    pc,                 \* thread -> where it is in the call it is making
    call,               \* thread -> the argument of the call it is making
    tagsRead,           \* the sendDeviceType the render thread's block captured for
    latencySeconds,     \* InsertPlugin::latencySeconds, a fraction <<n, d>>
    initBlockSize,      \* blockSizeSamples of the latest initialise call, 0 if none
    gainLevel,          \* AuxSendPlugin: fader position of the gain parameter
    lastVolumeBeforeMute, \* AuxSendPlugin: CachedValue<float>, in 0.01 dB
    auxCalls            \* AuxSendPlugin: the latest two calls, oldest first

routeVars == <<inputDevices, outputDevices, state, inputDevice, outputDevice,
               returnDeviceType, sendDeviceType>>

bufVars == <<sendBuffer, returnBuffer, sendMidiBuffer, returnMidiBuffer>>

histVars == <<nextId, pushed, liveLog, deviceLog, captured, discarded,
              sinceBlock, sinceDrain>>

threadVars == <<bufferLock, pc, call, tagsRead>>

lifeVars == <<latencySeconds, initBlockSize>>

auxVars == <<gainLevel, lastVolumeBeforeMute, auxCalls>>

vars == <<inputDevices, outputDevices, state, inputDevice, outputDevice,
          returnDeviceType, sendDeviceType, enumResult, lastOp, lastArg, ranUpdate,
          sendBuffer, returnBuffer, sendMidiBuffer, returnMidiBuffer,
          nextId, pushed, liveLog, deviceLog, captured, discarded,
          sinceBlock, sinceDrain,
          bufferLock, pc, call, tagsRead, latencySeconds, initBlockSize,
          gainLevel, lastVolumeBeforeMute, auxCalls>>

(***************************************************************************)
(* enum DeviceType { noDevice, audioDevice, midiDevice }                   *)
(***************************************************************************)
noDevice    == "noDevice"
audioDevice == "audioDevice"
midiDevice  == "midiDevice"
DeviceType  == {noDevice, audioDevice, midiDevice}

(***************************************************************************)
(* Devices of the device manager.  ext is                                  *)
(* MidiOutputDevice::isConnectedToExternalController, FALSE for any other  *)
(* kind of device.                                                         *)
(***************************************************************************)
DeviceNames == {"A", "B"}
Alias(n)    == <<"alias", n>>

InputDevice ==
    { [name |-> n, alias |-> Alias(n), enabled |-> e, isMidi |-> m, ext |-> FALSE] :
        n \in DeviceNames, e \in BOOLEAN, m \in BOOLEAN }

OutputDevice ==
    { d \in { [name |-> n, alias |-> Alias(n), enabled |-> e, isMidi |-> m, ext |-> x] :
                n \in DeviceNames, e \in BOOLEAN, m \in BOOLEAN, x \in BOOLEAN } :
        d.ext => d.isMidi }

SeqsUpTo(S, n) == UNION { [1..k -> S] : k \in 0..n }

\* the values a device-name property can hold: empty, a device's name, or
\* a name no device has
ConfiguredNames == {"", "A", "B"}

(***************************************************************************)
(* juce::StringArray::indexOf: index (from 0) of the first element equal   *)
(* to x, or -1.                                                            *)
(***************************************************************************)
IndexOf(s, x) ==
    IF \E k \in 1..Len(s) : s[k] = x
    THEN (CHOOSE k \in 1..Len(s) : s[k] = x /\ \A j \in 1..(k-1) : s[j] # x) - 1
    ELSE -1

(***************************************************************************)
(* The four out-parameters of the enumeration functions: two StringArrays  *)
(* and two BigIntegers (a BigInteger is the set of its set bits;           *)
(* operator[] of a negative or unset index is false).                      *)
(***************************************************************************)
EmptyArrays == [s |-> <<>>, a |-> <<>>, hasAudio |-> {}, hasMidi |-> {}]

\* one iteration of the loop of getPossibleInputDeviceNames
InputLoopBody(in, r) ==
    IF ~ in.enabled
    THEN r
    ELSE [s        |-> Append(r.s, in.name),
          a        |-> Append(r.a, in.alias),
          hasAudio |-> IF in.isMidi THEN r.hasAudio ELSE r.hasAudio \cup {Len(r.s)},
          hasMidi  |-> IF in.isMidi THEN r.hasMidi \cup {Len(r.s)} ELSE r.hasMidi]

RECURSIVE InputLoop(_, _, _)
InputLoop(devs, i, r) ==
    IF i > Len(devs) THEN r
    ELSE InputLoop(devs, i + 1, InputLoopBody(devs[i], r))

\* getPossibleInputDeviceNames: appends to the arrays it is given
getPossibleInputDeviceNames(devs, r) == InputLoop(devs, 1, r)

\* OutputLoopBody without the isConnectedToExternalController test
OutputLoopBody_noExtTest(out, r) ==
    IF ~ out.enabled
    THEN r
    ELSE [s        |-> Append(r.s, out.name),
          a        |-> Append(r.a, out.alias),
          hasAudio |-> IF out.isMidi THEN r.hasAudio ELSE r.hasAudio \cup {Len(r.s)},
          hasMidi  |-> IF out.isMidi THEN r.hasMidi \cup {Len(r.s)} ELSE r.hasMidi]

\* one iteration of the loop of getPossibleOutputDeviceNames
OutputLoopBody(out, r) ==
    IF ~ out.enabled
    THEN r
    ELSE IF out.isMidi /\ out.ext
    THEN r
    ELSE [s        |-> Append(r.s, out.name),
          a        |-> Append(r.a, out.alias),
          hasAudio |-> IF out.isMidi THEN r.hasAudio ELSE r.hasAudio \cup {Len(r.s)},
          hasMidi  |-> IF out.isMidi THEN r.hasMidi \cup {Len(r.s)} ELSE r.hasMidi]

RECURSIVE OutputLoop(_, _, _)
OutputLoop(devs, i, r) ==
    IF i > Len(devs) THEN r
    ELSE OutputLoop(devs, i + 1, OutputLoopBody(devs[i], r))

\* getPossibleOutputDeviceNames: appends to the arrays it is given
getPossibleOutputDeviceNames(devs, r) == OutputLoop(devs, 1, r)

\* InsertPlugin::getPossibleDeviceNames
getPossibleDeviceNames(ins, outs, r, forInput) ==
    IF forInput THEN getPossibleInputDeviceNames(ins, r)
                ELSE getPossibleOutputDeviceNames(outs, r)

(***************************************************************************)
(* updateDeviceTypes: the setDeviceType lambda, and the two resolutions.   *)
(* The arrays filled for the input direction are handed on, unemptied, to  *)
(* the output enumeration.                                                 *)
(***************************************************************************)
setDeviceType(audio, midi, index) ==
    IF index \in audio THEN audioDevice
    ELSE IF index \in midi THEN midiDevice
    ELSE noDevice

ArraysAfterInputs(ins) == getPossibleInputDeviceNames(ins, EmptyArrays)

ArraysAfterOutputs(ins, outs) ==
    getPossibleOutputDeviceNames(outs, ArraysAfterInputs(ins))

ResolveReturn(ins, inName) ==
    LET r == ArraysAfterInputs(ins)
    IN  setDeviceType(r.hasAudio, r.hasMidi, IndexOf(r.s, inName))

ResolveSend(ins, outs, outName) ==
    LET r == ArraysAfterOutputs(ins, outs)
    IN  setDeviceType(r.hasAudio, r.hasMidi, IndexOf(r.s, outName))

\* the effect of InsertPlugin::updateDeviceTypes on the two tags, given the
\* device manager and the cached names it reads
updateDeviceTypes(ins, outs, inName, outName) ==
    /\ returnDeviceType' = ResolveReturn(ins, inName)
    /\ sendDeviceType'   = ResolveSend(ins, outs, outName)


(***************************************************************************)
(* Audio buffers: a sequence of channels, each a sequence of frames.       *)
(* A default-constructed buffer has no channels.                           *)
(***************************************************************************)
Min(a, b) == IF a < b THEN a ELSE b

NumChannels(b) == Len(b)
NumFrames(b)   == IF Len(b) = 0 THEN 0 ELSE Len(b[1])

Zeros(ch, fr) == [c \in 1..ch |-> [f \in 1..fr |-> 0]]

\* choc::buffer::copyIntersection (dst.fromFrame (dOff), src.fromFrame (sOff)):
\* copies the channels and frames the two views have in common
CopyIntersection(dst, dOff, src, sOff) ==
    LET chs == Min(NumChannels(dst), NumChannels(src))
        frs == Min(NumFrames(dst) - dOff, NumFrames(src) - sOff)
    IN  [c \in 1..NumChannels(dst) |->
            [f \in 1..NumFrames(dst) |->
                IF c <= chs /\ f > dOff /\ f <= dOff + frs
                THEN src[c][f - dOff + sOff]
                ELSE dst[c][f]]]

\* juce::AudioBuffer::clear (startSample, numSamples): all channels
ClearRange(b, start, num) ==
    [c \in 1..NumChannels(b) |->
        [f \in 1..NumFrames(b) |->
            IF f > start /\ f <= start + num THEN 0 ELSE b[c][f]]]

(***************************************************************************)
(* MidiMessageArray: a sequence of events.                                 *)
(***************************************************************************)
\* dst.mergeFrom (src): src keeps its events
MergeFrom(dst, src) == dst \o src

\* dst.mergeFromAndClear (src): the events move
MergeFromAndClear(dst, src) == [dst |-> dst \o src, src |-> <<>>]

Events(s) == { s[k] : k \in 1..Len(s) }
Count(e, s) == Cardinality({ k \in 1..Len(s) : s[k] = e })

\* InsertPlugin::initialise, the section under bufferLock
\* initialise resizing sendBuffer only
InitialiseBuffers_sendOnly(blockSizeSamples) ==
    /\ sendBuffer' = Zeros(2, blockSizeSamples)
    /\ UNCHANGED <<returnBuffer, sendMidiBuffer, returnMidiBuffer>>

InitialiseBuffers(blockSizeSamples) ==
    /\ sendBuffer' = Zeros(2, blockSizeSamples)
    /\ returnBuffer' = Zeros(2, blockSizeSamples)
    /\ UNCHANGED <<sendMidiBuffer, returnMidiBuffer>>

\* fractions <<n, d>> with d > 0, in lowest terms
RECURSIVE GCD(_, _)
GCD(a, b) == IF b = 0 THEN a ELSE GCD(b, a % b)
Fraction(n, d) == LET g == GCD(n, d) IN <<n \div g, d \div g>>
FractionSum(x, y) == Fraction(x[1] * y[2] + y[1] * x[2], x[2] * y[2])

\* initialiseWithoutStopping computing the latency from the block size alone
initialiseWithoutStopping_noAdjust(ms, blockSizeSamples, sampleRate) ==
    Fraction(blockSizeSamples, sampleRate)

\* InsertPlugin::initialiseWithoutStopping: the value given to latencySeconds,
\* manualAdjustMs / 1000.0 + (double) info.blockSizeSamples / info.sampleRate
initialiseWithoutStopping(ms, blockSizeSamples, sampleRate) ==
    FractionSum(Fraction(ms, 1000), Fraction(blockSizeSamples, sampleRate))

\* InsertPlugin::deinitialise
DeinitialiseBuffers ==
    /\ sendBuffer' = <<>>
    /\ returnBuffer' = <<>>
    /\ sendMidiBuffer' = <<>>
    /\ returnMidiBuffer' = <<>>

(***************************************************************************)
(* InsertPlugin::applyToBuffer, step by step.  Each step takes and returns *)
(* the buffers it may touch.                                               *)
(***************************************************************************)
\* Capture reading the destination buffer from frame 0
Capture_fromFrameZero(sendType, c, sb, smb) ==
    IF sendType = audioDevice /\ c.hasDest
    THEN [fc |-> c, sendMidiBuffer |-> smb,
          sendBuffer |-> CopyIntersection(sb, 0, c.destBuffer, 0)]
    ELSE IF sendType = midiDevice /\ c.hasMidi
    THEN LET m == MergeFromAndClear(<<>>, c.midi)
         IN  [fc |-> [c EXCEPT !.midi = m.src], sendMidiBuffer |-> m.dst,
              sendBuffer |-> sb]
    ELSE [fc |-> c, sendMidiBuffer |-> smb, sendBuffer |-> sb]

\* Capture without sendMidiBuffer.clear()
Capture_noClear(sendType, c, sb, smb) ==
    IF sendType = audioDevice /\ c.hasDest
    THEN [fc |-> c, sendMidiBuffer |-> smb,
          sendBuffer |-> CopyIntersection(sb, 0, c.destBuffer, c.bufferStartSample)]
    ELSE IF sendType = midiDevice /\ c.hasMidi
    THEN LET m == MergeFromAndClear(smb, c.midi)
         IN  [fc |-> [c EXCEPT !.midi = m.src], sendMidiBuffer |-> m.dst,
              sendBuffer |-> sb]
    ELSE [fc |-> c, sendMidiBuffer |-> smb, sendBuffer |-> sb]

\* "Fill send buffer with data"
Capture(sendType, c, sb, smb) ==
    IF sendType = audioDevice /\ c.hasDest
    THEN [fc |-> c, sendMidiBuffer |-> smb,
          sendBuffer |-> CopyIntersection(sb, 0, c.destBuffer, c.bufferStartSample)]
    ELSE IF sendType = midiDevice /\ c.hasMidi
    THEN LET m == MergeFromAndClear(<<>>, c.midi)
         IN  [fc |-> [c EXCEPT !.midi = m.src], sendMidiBuffer |-> m.dst,
              sendBuffer |-> sb]
    ELSE [fc |-> c, sendMidiBuffer |-> smb, sendBuffer |-> sb]

\* ClearContext clearing the MIDI list only
ClearContext_midiOnly(c) ==
    [c EXCEPT !.midi = IF c.hasMidi THEN <<>> ELSE @]

\* "Clear the context buffers"
ClearContext(c) ==
    [c EXCEPT !.midi = IF c.hasMidi THEN <<>> ELSE @,
              !.destBuffer = IF c.hasDest
                             THEN ClearRange(@, c.bufferStartSample, c.bufferNumSamples)
                             ELSE @]

\* Restore without the early exit
Restore_noEarlyExit(sendType, returnType, c, rb, rmb) ==
    IF returnType = audioDevice /\ c.hasDest
    THEN [fc |-> [c EXCEPT !.destBuffer =
                     CopyIntersection(@, c.bufferStartSample, rb, 0)],
          returnMidiBuffer |-> rmb]
    ELSE IF returnType = midiDevice /\ c.hasMidi
    THEN LET m == MergeFromAndClear(c.midi, rmb)
         IN  [fc |-> [c EXCEPT !.midi = m.dst], returnMidiBuffer |-> m.src]
    ELSE [fc |-> c, returnMidiBuffer |-> rmb]

\* Restore copying the return MIDI events (mergeFrom) instead of moving them
Restore_copyNotMove(sendType, returnType, c, rb, rmb) ==
    IF sendType = noDevice
    THEN [fc |-> c, returnMidiBuffer |-> rmb]
    ELSE IF returnType = audioDevice /\ c.hasDest
    THEN [fc |-> [c EXCEPT !.destBuffer =
                     CopyIntersection(@, c.bufferStartSample, rb, 0)],
          returnMidiBuffer |-> rmb]
    ELSE IF returnType = midiDevice /\ c.hasMidi
    THEN [fc |-> [c EXCEPT !.midi = MergeFrom(c.midi, rmb)], returnMidiBuffer |-> rmb]
    ELSE [fc |-> c, returnMidiBuffer |-> rmb]

\* the early exit, and "Copy the return buffer into the context"
Restore(sendType, returnType, c, rb, rmb) ==
    IF sendType = noDevice
    THEN [fc |-> c, returnMidiBuffer |-> rmb]
    ELSE IF returnType = audioDevice /\ c.hasDest
    THEN [fc |-> [c EXCEPT !.destBuffer =
                     CopyIntersection(@, c.bufferStartSample, rb, 0)],
          returnMidiBuffer |-> rmb]
    ELSE IF returnType = midiDevice /\ c.hasMidi
    THEN LET m == MergeFromAndClear(c.midi, rmb)
         IN  [fc |-> [c EXCEPT !.midi = m.dst], returnMidiBuffer |-> m.src]
    ELSE [fc |-> c, returnMidiBuffer |-> rmb]

\* the restore step's MIDI branch runs
RestoreDrains(sendType, returnType, c) ==
    sendType # noDevice /\ returnType = midiDevice /\ c.hasMidi

\* the capture step's MIDI branch runs
MidiCaptureRuns(sendType, c) == sendType = midiDevice /\ c.hasMidi

\* InsertPlugin::fillSendBuffer on the caller's views v
FillSend(sendType, v, sb, smb) ==
    IF sendType = audioDevice
    THEN [io |-> IF v.hasAudio
                 THEN [v EXCEPT !.audio = CopyIntersection(@, 0, sb, 0)]
                 ELSE v,
          sendMidiBuffer |-> smb]
    ELSE IF sendType = midiDevice /\ v.hasMidi
    THEN LET m == MergeFromAndClear(v.midi, smb)
         IN  [io |-> [v EXCEPT !.midi = m.dst], sendMidiBuffer |-> m.src]
    ELSE [io |-> v, sendMidiBuffer |-> smb]

\* fillReturnBuffer taking whatever view it is given, whatever the tag
FillReturn_noTagTest(returnType, v, rb, rmb) ==
    IF v.hasAudio
    THEN [io |-> v, returnMidiBuffer |-> rmb,
          returnBuffer |-> CopyIntersection(rb, 0, v.audio, 0)]
    ELSE IF v.hasMidi
    THEN [io |-> v, returnMidiBuffer |-> MergeFrom(rmb, v.midi), returnBuffer |-> rb]
    ELSE [io |-> v, returnMidiBuffer |-> rmb, returnBuffer |-> rb]

\* fillReturnBuffer replacing the events of returnMidiBuffer
FillReturn_replacesMidi(returnType, v, rb, rmb) ==
    IF returnType = audioDevice
    THEN [io |-> v, returnMidiBuffer |-> rmb,
          returnBuffer |-> IF v.hasAudio THEN CopyIntersection(rb, 0, v.audio, 0) ELSE rb]
    ELSE IF returnType = midiDevice /\ v.hasMidi
    THEN [io |-> v, returnMidiBuffer |-> v.midi, returnBuffer |-> rb]
    ELSE [io |-> v, returnMidiBuffer |-> rmb, returnBuffer |-> rb]

\* InsertPlugin::fillReturnBuffer on the caller's views v
FillReturn(returnType, v, rb, rmb) ==
    IF returnType = audioDevice
    THEN [io |-> v, returnMidiBuffer |-> rmb,
          returnBuffer |-> IF v.hasAudio THEN CopyIntersection(rb, 0, v.audio, 0) ELSE rb]
    ELSE IF returnType = midiDevice /\ v.hasMidi
    THEN [io |-> v, returnMidiBuffer |-> MergeFrom(rmb, v.midi), returnBuffer |-> rb]
    ELSE [io |-> v, returnMidiBuffer |-> rmb, returnBuffer |-> rb]

(***************************************************************************)
(* The persisted properties of the plugin's ValueTree.                     *)
(***************************************************************************)
PropertyIDs == {"name", "inputDevice", "outputDevice", "manualAdjustMs"}

PropertyValues(i) ==
    CASE i = "name"           -> {"", "my insert"}
      [] i = "inputDevice"    -> ConfiguredNames
      [] i = "outputDevice"   -> ConfiguredNames
      [] i = "manualAdjustMs" -> {0, 10}

\* valueTreePropertyChanged re-resolving for outputDevice only
valueTreePropertyChanged_outputOnly(tree, i) ==
    /\ outputDevice' = IF i = "outputDevice" THEN tree.outputDevice ELSE outputDevice
    /\ inputDevice'  = IF i = "inputDevice"  THEN tree.inputDevice  ELSE inputDevice
    /\ IF i = "outputDevice"
       THEN /\ updateDeviceTypes(inputDevices, outputDevices, inputDevice', outputDevice')
            /\ ranUpdate' = TRUE
       ELSE /\ UNCHANGED <<returnDeviceType, sendDeviceType>>
            /\ ranUpdate' = FALSE

(***************************************************************************)
(* InsertPlugin::valueTreePropertyChanged (v == state), called with the    *)
(* tree as it is after property i changed: the update lambda refreshes the *)
(* cached name whose id is i, and a refreshed name re-resolves.            *)
(***************************************************************************)
valueTreePropertyChanged(tree, i) ==
    /\ outputDevice' = IF i = "outputDevice" THEN tree.outputDevice ELSE outputDevice
    /\ inputDevice'  = IF i = "inputDevice"  THEN tree.inputDevice  ELSE inputDevice
    /\ IF i = "outputDevice" \/ i = "inputDevice"
       THEN /\ updateDeviceTypes(inputDevices, outputDevices, inputDevice', outputDevice')
            /\ ranUpdate' = TRUE
       ELSE /\ UNCHANGED <<returnDeviceType, sendDeviceType>>
            /\ ranUpdate' = FALSE

\* a property of the plugin's state tree is set to a new value; the tree
\* notifies its listeners
SetProperty(i, v) ==
    /\ state[i] # v
    /\ state' = [state EXCEPT ![i] = v]
    /\ valueTreePropertyChanged(state', i)
    /\ lastOp' = "setProperty"
    /\ lastArg' = [isDeviceName |-> i \in {"inputDevice", "outputDevice"}]
    /\ UNCHANGED <<inputDevices, outputDevices, enumResult>>
    /\ UNCHANGED <<bufVars, histVars, threadVars, lifeVars, auxVars>>

(***************************************************************************)
(* The device manager's set of enabled devices changes: a device is        *)
(* enabled or disabled, or a MIDI output is given to or taken from an      *)
(* external controller.  The device-change listener re-resolves.           *)
(***************************************************************************)
ToggleEnabled(devs, k) == [devs EXCEPT ![k].enabled = ~ devs[k].enabled]
ToggleExt(devs, k)     == [devs EXCEPT ![k].ext = ~ devs[k].ext]

DeviceSetChanged(ins, outs) ==
    /\ inputDevices' = ins
    /\ outputDevices' = outs
    /\ updateDeviceTypes(ins, outs, inputDevice, outputDevice)
    /\ ranUpdate' = TRUE
    /\ lastOp' = "deviceSetChanged"
    /\ lastArg' = <<>>
    /\ UNCHANGED <<state, inputDevice, outputDevice, enumResult>>
    /\ UNCHANGED <<bufVars, histVars, threadVars, lifeVars, auxVars>>

InputDeviceToggled ==
    \E k \in 1..Len(inputDevices) :
        DeviceSetChanged(ToggleEnabled(inputDevices, k), outputDevices)

OutputDeviceToggled ==
    \E k \in 1..Len(outputDevices) :
        DeviceSetChanged(inputDevices, ToggleEnabled(outputDevices, k))

ExternalControllerToggled ==
    \E k \in 1..Len(outputDevices) :
        /\ outputDevices[k].isMidi
        /\ DeviceSetChanged(inputDevices, ToggleExt(outputDevices, k))

(***************************************************************************)
(* A caller (the device-selection UI) enumerates one direction, into       *)
(* empty arrays or into the arrays its previous call filled.               *)
(***************************************************************************)
GetPossibleDeviceNames(forInput, intoEmpty) ==
    /\ intoEmpty \/ (lastOp = "getPossibleDeviceNames" /\ lastArg.intoEmpty)
    /\ enumResult' = getPossibleDeviceNames(inputDevices, outputDevices,
                         IF intoEmpty THEN EmptyArrays ELSE enumResult, forInput)
    /\ lastOp' = "getPossibleDeviceNames"
    /\ lastArg' = [forInput |-> forInput, intoEmpty |-> intoEmpty]
    /\ ranUpdate' = FALSE
    /\ UNCHANGED <<routeVars, bufVars, histVars, threadVars, lifeVars, auxVars>>

(***************************************************************************)
(* Initial states: the plugin as constructed from persisted state; the     *)
(* constructor binds the cached values and runs updateDeviceTypes.         *)
(***************************************************************************)
(***************************************************************************)
(* AuxSendPlugin.  Gains are in units of 0.01 dB.  A fader position is the  *)
(* distance of the gain from the -100 dB floor, which is position 0; the   *)
(* gain parameter's range { 0.0f, 1.0f } ends at FaderRangeEnd.            *)
(***************************************************************************)
\* -100.0f
MuteFloorDb == -10000
\* -90.0f
IsMuteDb == -9000
\* 0.01f
NudgeDb == 1
\* the fader position 1.0f, that of +6 dB
FaderRangeEnd == 10600

decibelsToVolumeFaderPosition(db) ==
    IF db > MuteFloorDb THEN db - MuteFloorDb ELSE 0

volumeFaderPositionToDB(pos) ==
    IF pos > 0 THEN pos + MuteFloorDb ELSE MuteFloorDb

\* the plugin as a call finds and leaves it: the gain parameter's current
\* value, lastVolumeBeforeMute, and the value changes the parameter has seen
\* during the call
AuxNow == [gainLevel |-> gainLevel, lastVolumeBeforeMute |-> lastVolumeBeforeMute,
           writes |-> <<>>]

\* AutomatableParameter::setParameter: the value is clipped to the range and,
\* when it differs from the current one, becomes current and is notified
setParameter(s, value) ==
    LET clipped == IF value > FaderRangeEnd THEN FaderRangeEnd
                   ELSE IF value < 0 THEN 0 ELSE value
    IN  IF clipped # s.gainLevel
        THEN [s EXCEPT !.gainLevel = clipped, !.writes = Append(@, clipped)]
        ELSE s

getGainDb(s) == volumeFaderPositionToDB(s.gainLevel)

setGainDb(s, newDb) ==
    LET newPos == decibelsToVolumeFaderPosition(newDb)
    IN  IF s.gainLevel # newPos THEN setParameter(s, newPos) ELSE s

\* setMute writing the restored value without the 0.01 dB step before it
setMute_noNudge(s, b) ==
    IF b
    THEN LET saved == [s EXCEPT !.lastVolumeBeforeMute = getGainDb(s)]
         IN  setGainDb(saved, MuteFloorDb)
    ELSE LET target == IF s.lastVolumeBeforeMute < MuteFloorDb
                       THEN [s EXCEPT !.lastVolumeBeforeMute = 0] ELSE s
         IN  setGainDb(target, target.lastVolumeBeforeMute)

setMute(s, b) ==
    IF b
    THEN LET saved == [s EXCEPT !.lastVolumeBeforeMute = getGainDb(s)]
             nudged == setGainDb(saved, saved.lastVolumeBeforeMute - NudgeDb)
         IN  setGainDb(nudged, MuteFloorDb)
    ELSE LET target == IF s.lastVolumeBeforeMute < MuteFloorDb
                       THEN [s EXCEPT !.lastVolumeBeforeMute = 0] ELSE s
             nudged == setGainDb(target, getGainDb(target) + NudgeDb)
         IN  setGainDb(nudged, target.lastVolumeBeforeMute)

\* isMute testing for the mute floor itself
isMute_floorOnly(s) == getGainDb(s) = MuteFloorDb

isMute(s) == getGainDb(s) <= IsMuteDb

\* AuxSendPlugin::AuxSendPlugin with no persisted properties: the gain at
\* 0 dB, lastVolumeBeforeMute 0
AuxSendConstructed ==
    /\ gainLevel = decibelsToVolumeFaderPosition(0)
    /\ lastVolumeBeforeMute = 0
    /\ auxCalls = <<>>

\* the threads that call into the plugin: the audio render thread, the
\* device-output and device-input threads, and the control thread
Threads == {"render", "output", "input", "control"}
NoThread == "none"
NoCall == [none |-> TRUE]
\* the render thread is not past the capture step of a block
NoTagsRead == "unread"

Constructed(ins, outs, tree) ==
    /\ inputDevices = ins
    /\ outputDevices = outs
    /\ state = tree
    /\ inputDevice = tree.inputDevice
    /\ outputDevice = tree.outputDevice
    /\ returnDeviceType = ResolveReturn(ins, tree.inputDevice)
    /\ sendDeviceType = ResolveSend(ins, outs, tree.outputDevice)
    /\ enumResult = EmptyArrays
    /\ lastOp = "InsertPlugin"
    /\ lastArg = <<>>
    /\ ranUpdate = TRUE
    /\ sendBuffer = <<>>
    /\ returnBuffer = <<>>
    /\ sendMidiBuffer = <<>>
    /\ returnMidiBuffer = <<>>
    /\ nextId = 0
    /\ pushed = {}
    /\ liveLog = <<>>
    /\ deviceLog = <<>>
    /\ captured = <<>>
    /\ discarded = {}
    /\ sinceBlock = {}
    /\ sinceDrain = <<>>
    /\ bufferLock = NoThread
    /\ pc = [t \in Threads |-> "idle"]
    /\ call = [t \in Threads |-> NoCall]
    /\ tagsRead = NoTagsRead
    /\ latencySeconds = Fraction(0, 1)
    /\ initBlockSize = 0
    /\ AuxSendConstructed

DeviceManagers ==
    { dm \in SeqsUpTo(InputDevice, MaxDevices) \X SeqsUpTo(OutputDevice, MaxDevices) :
        Len(dm[1]) + Len(dm[2]) <= MaxDevices }

Trees == [name : PropertyValues("name"), inputDevice : ConfiguredNames,
          outputDevice : ConfiguredNames, manualAdjustMs : PropertyValues("manualAdjustMs")]

\* device resolution: any device manager, any persisted names
InitRoute ==
    \E dm \in DeviceManagers, inN \in ConfiguredNames, outN \in ConfiguredNames :
        Constructed(dm[1], dm[2],
                    [name |-> "", inputDevice |-> inN, outputDevice |-> outN,
                     manualAdjustMs |-> 0])

NextRoute ==
    \/ \E i \in PropertyIDs : \E v \in PropertyValues(i) : SetProperty(i, v)
    \/ InputDeviceToggled
    \/ OutputDeviceToggled
    \/ ExternalControllerToggled

SpecRoute == InitRoute /\ [][NextRoute]_vars

(***************************************************************************)
(* Block processing: the render thread's applyToBuffer, the device-I/O     *)
(* accessors, initialise/deinitialise, and changes of the two device       *)
(* names.  Every call runs under bufferLock from start to end.             *)
(***************************************************************************)
\* sample values: the track's signal is positive, the device's return
\* signal negative, silence is 0, and a value tells its channel c and its
\* frame f in the caller's buffer
LiveSample(c, f)   == 10 * c + f
ReturnSample(c, f) == 0 - (10 * c + f)
\* frame counts of the buffers callers hand in: the shortest and the longest
FrameCounts == {1, MaxFrames}

\* channel counts of the buffers callers hand in: fewer and more than the
\* two channels of sendBuffer/returnBuffer
CallerChannels == {1, 3}

LiveBuffer(ch, fr) == [c \in 1..ch |-> [f \in 1..fr |-> LiveSample(c, f)]]
ReturnView(ch, fr) == [c \in 1..ch |-> [f \in 1..fr |-> ReturnSample(c, f)]]
\* what the device-output caller's buffer holds before fillSendBuffer
StaleView(ch, fr)  == [c \in 1..ch |-> [f \in 1..fr |-> 9]]

\* k new events of one origin ("live": the track, "ret": the device input)
FreshEvents(origin, n, k) == [j \in 1..k |-> <<origin, n + j>>]

\* a null MIDI list, or a list of k new events for a k in ks (as far as
\* MaxEvents allows)
MidiLists(origin, n, ks) ==
    { [hasMidi |-> FALSE, midi |-> <<>>] }
    \cup { [hasMidi |-> TRUE, midi |-> FreshEvents(origin, n, Min(k, MaxEvents - n))] :
             k \in ks }

NullDest == [hasDest |-> FALSE, destBuffer |-> <<>>,
             bufferStartSample |-> 0, bufferNumSamples |-> 0]

\* the destination buffers a block can bring, with the block's sample range
\* inside the buffer
DestBuffers ==
    { d \in { [hasDest |-> TRUE, destBuffer |-> LiveBuffer(ch, fr),
               bufferStartSample |-> st, bufferNumSamples |-> nm] :
                ch \in CallerChannels, fr \in FrameCounts,
                st \in 0..(MaxFrames - 1), nm \in 1..MaxFrames } :
        d.bufferStartSample + d.bufferNumSamples <= NumFrames(d.destBuffer) }

RenderContexts(audio, midi) ==
    { [hasDest |-> a.hasDest, destBuffer |-> a.destBuffer,
       hasMidi |-> m.hasMidi, midi |-> m.midi,
       bufferStartSample |-> a.bufferStartSample,
       bufferNumSamples |-> a.bufferNumSamples] : a \in audio, m \in midi }

NullAudio == [hasAudio |-> FALSE, audio |-> <<>>]

\* the audio views the device-output path hands to fillSendBuffer
SendAudioViews ==
    { [hasAudio |-> TRUE, audio |-> StaleView(ch, fr)] :
        ch \in CallerChannels, fr \in FrameCounts }

\* the audio views the device-input path hands to fillReturnBuffer
ReturnAudioViews ==
    { [hasAudio |-> TRUE, audio |-> ReturnView(ch, fr)] :
        ch \in CallerChannels, fr \in FrameCounts }

Views(audio, midi) ==
    { [hasAudio |-> a.hasAudio, audio |-> a.audio,
       hasMidi |-> m.hasMidi, midi |-> m.midi] : a \in audio, m \in midi }

\* InsertPlugin::applyToBuffer on render context c: the context as the call
\* leaves it, and the four buffers as it leaves them
applyToBuffer(c) ==
    LET cap == Capture(sendDeviceType, c, sendBuffer, sendMidiBuffer)
        clr == ClearContext(cap.fc)
        res == Restore(sendDeviceType, returnDeviceType, clr,
                       returnBuffer, returnMidiBuffer)
    IN  [fc |-> res.fc,
         sendBuffer |-> cap.sendBuffer, sendMidiBuffer |-> cap.sendMidiBuffer,
         returnBuffer |-> returnBuffer, returnMidiBuffer |-> res.returnMidiBuffer]

\* InsertPlugin::fillSendBuffer on the caller's views v: the views and the
\* four buffers as the call leaves them
fillSendBuffer(v) ==
    LET r == FillSend(sendDeviceType, v, sendBuffer, sendMidiBuffer)
    IN  [io |-> r.io,
         sendBuffer |-> sendBuffer, sendMidiBuffer |-> r.sendMidiBuffer,
         returnBuffer |-> returnBuffer, returnMidiBuffer |-> returnMidiBuffer]

\* InsertPlugin::fillReturnBuffer on the caller's views v
fillReturnBuffer(v) ==
    LET r == FillReturn(returnDeviceType, v, returnBuffer, returnMidiBuffer)
    IN  [io |-> r.io,
         sendBuffer |-> sendBuffer, sendMidiBuffer |-> sendMidiBuffer,
         returnBuffer |-> r.returnBuffer, returnMidiBuffer |-> r.returnMidiBuffer]

\* a call leaves the four buffers as r says
BuffersBecome(r) ==
    /\ sendBuffer' = r.sendBuffer
    /\ sendMidiBuffer' = r.sendMidiBuffer
    /\ returnBuffer' = r.returnBuffer
    /\ returnMidiBuffer' = r.returnMidiBuffer

\* the buffer calls leave the routing alone
RoutingKept == UNCHANGED <<routeVars, enumResult, lastOp, lastArg, ranUpdate, auxVars>>

\* a call taken as one step: no thread is seen inside it
Whole(A) == A /\ RoutingKept /\ UNCHANGED <<threadVars, lifeVars>>

\* the sample rate of the runs that do not vary it
RunSampleRate == 48000

\* InsertPlugin::initialise (info) with info.sampleRate = sampleRate
InitialiseAt(blockSizeSamples, sampleRate) ==
    /\ InitialiseBuffers(blockSizeSamples)
    /\ latencySeconds' = initialiseWithoutStopping(state.manualAdjustMs,
                                                    blockSizeSamples, sampleRate)
    /\ initBlockSize' = blockSizeSamples
    /\ RoutingKept
    /\ UNCHANGED threadVars

Initialise(blockSizeSamples) == InitialiseAt(blockSizeSamples, RunSampleRate)

\* InsertPlugin::initialiseWithoutStopping (info), called on its own
InitialiseWithoutStopping(blockSizeSamples, sampleRate) ==
    /\ latencySeconds' = initialiseWithoutStopping(state.manualAdjustMs,
                                                    blockSizeSamples, sampleRate)
    /\ RoutingKept
    /\ UNCHANGED <<bufVars, threadVars, initBlockSize>>

Deinitialise == Whole(DeinitialiseBuffers)

ApplyToBuffer(c) == Whole(BuffersBecome(applyToBuffer(c)))

FillSendBuffer(v) == Whole(BuffersBecome(fillSendBuffer(v)))

FillReturnBuffer(v) == Whole(BuffersBecome(fillReturnBuffer(v)))

(***************************************************************************)
(* The history of the MIDI events, kept beside the calls.                  *)
(***************************************************************************)
HistApplyToBuffer(c) ==
    /\ liveLog' = liveLog \o applyToBuffer(c).fc.midi
    /\ captured' = IF MidiCaptureRuns(sendDeviceType, c) THEN c.midi ELSE captured
    /\ nextId' = nextId + Len(c.midi)
    /\ sinceBlock' = {}
    /\ sinceDrain' = IF RestoreDrains(sendDeviceType, returnDeviceType, c)
                     THEN <<>> ELSE sinceDrain
    /\ UNCHANGED <<pushed, deviceLog, discarded>>

HistFillSendBuffer(v) ==
    /\ deviceLog' = deviceLog \o fillSendBuffer(v).io.midi
    /\ UNCHANGED <<nextId, pushed, liveLog, captured, discarded, sinceBlock, sinceDrain>>

HistFillReturnBuffer(v) ==
    /\ pushed' = pushed \cup (Events(fillReturnBuffer(v).returnMidiBuffer)
                                \ Events(returnMidiBuffer))
    /\ nextId' = nextId + Len(v.midi)
    /\ sinceBlock' = sinceBlock \cup (pushed' \ pushed)
    /\ sinceDrain' = IF returnDeviceType = midiDevice /\ v.hasMidi
                     THEN sinceDrain \o v.midi ELSE sinceDrain
    /\ UNCHANGED <<liveLog, deviceLog, captured, discarded>>

HistDeinitialise ==
    /\ discarded' = discarded \cup Events(returnMidiBuffer)
    /\ sinceDrain' = <<>>
    /\ UNCHANGED <<nextId, pushed, liveLog, deviceLog, captured, sinceBlock>>

\* the devices of the block-processing runs: an audio and a MIDI device in
\* each direction
StudioInputs ==
    << [name |-> "A", alias |-> Alias("A"), enabled |-> TRUE, isMidi |-> FALSE, ext |-> FALSE],
       [name |-> "B", alias |-> Alias("B"), enabled |-> TRUE, isMidi |-> TRUE, ext |-> FALSE] >>

StudioOutputs == StudioInputs

Init ==
    Constructed(StudioInputs, StudioOutputs,
                [name |-> "", inputDevice |-> "", outputDevice |-> "",
                 manualAdjustMs |-> 0])

DeviceNameChanged ==
    \E i \in {"inputDevice", "outputDevice"} : \E v \in ConfiguredNames : SetProperty(i, v)

\* the render contexts and I/O views of the audio runs: audio buffers of
\* every shape, MIDI lists of one event
AudioRunContexts == RenderContexts(DestBuffers \cup {NullDest}, MidiLists("live", 0, {1}))
AudioRunSendViews == Views(SendAudioViews \cup {NullAudio}, MidiLists("out", 0, {0}))
AudioRunReturnViews == Views(ReturnAudioViews \cup {NullAudio}, MidiLists("ret", 0, {1}))

Next ==
    \/ \E b \in 1..MaxBlockSize : Initialise(b) /\ UNCHANGED histVars
    \/ Deinitialise /\ UNCHANGED histVars
    \/ \E c \in AudioRunContexts : ApplyToBuffer(c) /\ UNCHANGED histVars
    \/ \E v \in AudioRunSendViews : FillSendBuffer(v) /\ UNCHANGED histVars
    \/ \E v \in AudioRunReturnViews :
         /\ Len(returnMidiBuffer) + Len(v.midi) <= MaxPending
         /\ FillReturnBuffer(v)
         /\ UNCHANGED histVars
    \/ DeviceNameChanged

Spec == Init /\ [][Next]_vars

\* the render contexts and I/O views of the MIDI runs: null audio buffers,
\* MIDI lists of any number of new events
MidiRunContexts(n) == RenderContexts({NullDest}, MidiLists("live", n, 0..MaxEvents))
MidiRunSendViews == Views({NullAudio}, MidiLists("out", 0, {0}))
MidiRunReturnViews(n) == Views({NullAudio}, MidiLists("ret", n, 0..MaxEvents))

NextMidi ==
    \/ \E b \in 1..MaxBlockSize : Initialise(b) /\ UNCHANGED histVars
    \/ Deinitialise /\ HistDeinitialise
    \/ \E c \in MidiRunContexts(nextId) : ApplyToBuffer(c) /\ HistApplyToBuffer(c)
    \/ \E v \in MidiRunSendViews : FillSendBuffer(v) /\ HistFillSendBuffer(v)
    \/ \E v \in MidiRunReturnViews(nextId) : FillReturnBuffer(v) /\ HistFillReturnBuffer(v)
    \/ DeviceNameChanged

SpecMidi == Init /\ [][NextMidi]_vars

(***************************************************************************)
(* The calls step by step, one thread each: the render thread in           *)
(* applyToBuffer, the device-output thread in fillSendBuffer, the          *)
(* device-input thread in fillReturnBuffer, the control thread in          *)
(* initialise, deinitialise and the property changes.  A thread waiting    *)
(* for bufferLock is a thread that has not taken its step.                 *)
(***************************************************************************)
\* a ScopedLock constructor that does not wait for the lock
ScopedLock_noWait(t) ==
    /\ bufferLock' = t

\* const ScopedLock sl (bufferLock): a juce::CriticalSection is entered
\* when no other thread holds it
ScopedLock(t) ==
    /\ bufferLock \in {NoThread, t}
    /\ bufferLock' = t

\* ~ScopedLock at the end of the scope
ScopedUnlock(t) ==
    /\ bufferLock = t
    /\ bufferLock' = NoThread

\* thread t goes from label a to label b, its call's argument becoming x
Goes(t, a, b, x) ==
    /\ pc[t] = a
    /\ pc' = [pc EXCEPT ![t] = b]
    /\ call' = [call EXCEPT ![t] = x]

\* the labels at which a thread is between its first and its last access
\* to the four buffers
BufferSections == {"capture", "clear", "restore", "fillSend", "fillReturn",
                   "resize", "empty"}

InSection(t) == pc[t] \in BufferSections

\* applyToBuffer: the lock is taken
EnterApplyToBuffer(c) ==
    /\ Goes("render", "idle", "capture", c)
    /\ ScopedLock("render")
    /\ RoutingKept
    /\ UNCHANGED <<bufVars, tagsRead, lifeVars>>

\* applyToBuffer: "Fill send buffer with data"
StepCapture ==
    LET cap == Capture(sendDeviceType, call["render"], sendBuffer, sendMidiBuffer)
    IN  /\ Goes("render", "capture", "clear", cap.fc)
        /\ sendBuffer' = cap.sendBuffer
        /\ sendMidiBuffer' = cap.sendMidiBuffer
        /\ tagsRead' = sendDeviceType
        /\ RoutingKept
        /\ UNCHANGED <<returnBuffer, returnMidiBuffer, bufferLock, lifeVars>>

\* applyToBuffer: "Clear the context buffers"
StepClear ==
    /\ Goes("render", "clear", "restore", ClearContext(call["render"]))
    /\ RoutingKept
    /\ UNCHANGED <<bufVars, bufferLock, tagsRead, lifeVars>>

\* applyToBuffer: the early exit or "Copy the return buffer into the
\* context", and the end of the lock's scope
StepRestore ==
    LET res == Restore(sendDeviceType, returnDeviceType, call["render"],
                       returnBuffer, returnMidiBuffer)
    IN  /\ Goes("render", "restore", "idle", NoCall)
        /\ returnMidiBuffer' = res.returnMidiBuffer
        /\ tagsRead' = NoTagsRead
        /\ ScopedUnlock("render")
        /\ RoutingKept
        /\ UNCHANGED <<sendBuffer, returnBuffer, sendMidiBuffer, lifeVars>>

\* fillSendBuffer: the lock is taken
EnterFillSendBuffer(v) ==
    /\ Goes("output", "idle", "fillSend", v)
    /\ ScopedLock("output")
    /\ RoutingKept
    /\ UNCHANGED <<bufVars, tagsRead, lifeVars>>

\* fillSendBuffer: the copy or the merge, and the end of the lock's scope
StepFillSend ==
    LET r == FillSend(sendDeviceType, call["output"], sendBuffer, sendMidiBuffer)
    IN  /\ Goes("output", "fillSend", "idle", NoCall)
        /\ sendMidiBuffer' = r.sendMidiBuffer
        /\ ScopedUnlock("output")
        /\ RoutingKept
        /\ UNCHANGED <<sendBuffer, returnBuffer, returnMidiBuffer, tagsRead, lifeVars>>

\* fillReturnBuffer: the lock is taken
EnterFillReturnBuffer(v) ==
    /\ Goes("input", "idle", "fillReturn", v)
    /\ ScopedLock("input")
    /\ RoutingKept
    /\ UNCHANGED <<bufVars, tagsRead, lifeVars>>

\* fillReturnBuffer: the copy or the merge, and the end of the lock's scope
StepFillReturn ==
    LET r == FillReturn(returnDeviceType, call["input"], returnBuffer, returnMidiBuffer)
    IN  /\ Goes("input", "fillReturn", "idle", NoCall)
        /\ returnBuffer' = r.returnBuffer
        /\ returnMidiBuffer' = r.returnMidiBuffer
        /\ ScopedUnlock("input")
        /\ RoutingKept
        /\ UNCHANGED <<sendBuffer, sendMidiBuffer, tagsRead, lifeVars>>

\* initialise: the lock of the inner scope is taken
EnterInitialise(blockSizeSamples) ==
    /\ Goes("control", "idle", "resize", blockSizeSamples)
    /\ ScopedLock("control")
    /\ initBlockSize' = blockSizeSamples
    /\ RoutingKept
    /\ UNCHANGED <<bufVars, tagsRead, latencySeconds>>

\* initialise: the two buffers are resized and cleared, and the inner scope ends
StepResize ==
    /\ Goes("control", "resize", "latency", call["control"])
    /\ InitialiseBuffers(call["control"])
    /\ ScopedUnlock("control")
    /\ RoutingKept
    /\ UNCHANGED <<tagsRead, lifeVars>>

\* initialise: initialiseWithoutStopping, outside the lock
StepLatency ==
    /\ Goes("control", "latency", "idle", NoCall)
    /\ latencySeconds' = initialiseWithoutStopping(state.manualAdjustMs,
                                                    call["control"], RunSampleRate)
    /\ RoutingKept
    /\ UNCHANGED <<bufVars, bufferLock, tagsRead, initBlockSize>>

\* deinitialise: the lock is taken
EnterDeinitialise ==
    /\ Goes("control", "idle", "empty", NoCall)
    /\ ScopedLock("control")
    /\ RoutingKept
    /\ UNCHANGED <<bufVars, tagsRead, lifeVars>>

\* deinitialise: the four buffers are emptied, and the lock's scope ends
StepEmpty ==
    /\ Goes("control", "empty", "idle", NoCall)
    /\ DeinitialiseBuffers
    /\ ScopedUnlock("control")
    /\ RoutingKept
    /\ UNCHANGED <<tagsRead, lifeVars>>

\* what a step of the device-name change leaves alone: it takes no lock
\* and touches no buffer
UpdateKept ==
    UNCHANGED <<inputDevices, outputDevices, enumResult, bufVars, bufferLock,
                tagsRead, lifeVars, auxVars>>

\* a device name is set on the control thread, between its other calls:
\* valueTreePropertyChanged brings the cached name up to date and calls
\* updateDeviceTypes
EnterDeviceNameChanged(i, v) ==
    /\ state[i] # v
    /\ Goes("control", "idle", "updateReturn", NoCall)
    /\ state' = [state EXCEPT ![i] = v]
    /\ inputDevice' = state'.inputDevice
    /\ outputDevice' = state'.outputDevice
    /\ lastOp' = "setProperty"
    /\ lastArg' = [isDeviceName |-> TRUE]
    /\ ranUpdate' = TRUE
    /\ UpdateKept
    /\ UNCHANGED <<returnDeviceType, sendDeviceType>>

\* updateDeviceTypes: the write of returnDeviceType
StepUpdateReturn ==
    /\ Goes("control", "updateReturn", "updateSend", NoCall)
    /\ returnDeviceType' = ResolveReturn(inputDevices, inputDevice)
    /\ UpdateKept
    /\ UNCHANGED <<state, inputDevice, outputDevice, sendDeviceType,
                   lastOp, lastArg, ranUpdate>>

\* updateDeviceTypes: the write of sendDeviceType
StepUpdateSend ==
    /\ Goes("control", "updateSend", "idle", NoCall)
    /\ sendDeviceType' = ResolveSend(inputDevices, outputDevices, outputDevice)
    /\ UpdateKept
    /\ UNCHANGED <<state, inputDevice, outputDevice, returnDeviceType,
                   lastOp, lastArg, ranUpdate>>

\* the arguments of the step-by-step runs: a one-channel block of MaxFrames
\* frames with one MIDI event, and views of the same shape
LockRunContexts ==
    { c \in AudioRunContexts :
        /\ c.hasDest /\ c.hasMidi
        /\ NumChannels(c.destBuffer) = 1 /\ NumFrames(c.destBuffer) = MaxFrames
        /\ c.bufferStartSample = 0 /\ c.bufferNumSamples = MaxFrames }
LockRunSendViews ==
    { v \in AudioRunSendViews :
        /\ v.hasAudio /\ v.hasMidi
        /\ NumChannels(v.audio) = 1 /\ NumFrames(v.audio) = MaxFrames }
LockRunReturnViews ==
    { v \in AudioRunReturnViews :
        /\ v.hasAudio /\ v.hasMidi
        /\ NumChannels(v.audio) = 1 /\ NumFrames(v.audio) = MaxFrames }

NextLock ==
    \/ \E c \in LockRunContexts : EnterApplyToBuffer(c) /\ UNCHANGED histVars
    \/ StepCapture /\ UNCHANGED histVars
    \/ StepClear /\ UNCHANGED histVars
    \/ StepRestore /\ UNCHANGED histVars
    \/ \E v \in LockRunSendViews : EnterFillSendBuffer(v) /\ UNCHANGED histVars
    \/ StepFillSend /\ UNCHANGED histVars
    \/ \E v \in LockRunReturnViews :
         /\ Len(returnMidiBuffer) + Len(v.midi) <= MaxPending
         /\ EnterFillReturnBuffer(v)
         /\ UNCHANGED histVars
    \/ StepFillReturn /\ UNCHANGED histVars
    \/ \E b \in 1..MaxBlockSize : EnterInitialise(b) /\ UNCHANGED histVars
    \/ StepResize /\ UNCHANGED histVars
    \/ StepLatency /\ UNCHANGED histVars
    \/ EnterDeinitialise /\ UNCHANGED histVars
    \/ StepEmpty /\ UNCHANGED histVars
    \/ \E i \in {"inputDevice", "outputDevice"} : \E v \in ConfiguredNames :
         EnterDeviceNameChanged(i, v) /\ UNCHANGED histVars
    \/ StepUpdateReturn /\ UNCHANGED histVars
    \/ StepUpdateSend /\ UNCHANGED histVars

SpecLock == Init /\ [][NextLock]_vars

(***************************************************************************)
(* AuxSendPlugin's calls.                                                  *)
(***************************************************************************)
\* the gains setGainDb is given: below, at and just above the -100 dB
\* floor, around the -90 dB of isMute, ordinary ones, and the +6 dB end of
\* the fader and beyond
GainInputs == {MuteFloorDb - 100, MuteFloorDb, MuteFloorDb + NudgeDb,
               IsMuteDb - 500, IsMuteDb, IsMuteDb + NudgeDb, 0 - 600, 0,
               FaderRangeEnd + MuteFloorDb, FaderRangeEnd + MuteFloorDb + 100}

\* the AuxSendPlugin calls leave the InsertPlugin alone
AuxKept == UNCHANGED <<routeVars, enumResult, lastOp, lastArg, ranUpdate,
                       bufVars, histVars, threadVars, lifeVars>>

\* the call op, which leaves the plugin as r, is done and remembered
AuxCallDone(op, r) ==
    /\ gainLevel' = r.gainLevel
    /\ lastVolumeBeforeMute' = r.lastVolumeBeforeMute
    /\ auxCalls' = (IF Len(auxCalls) = 2 THEN Tail(auxCalls) ELSE auxCalls)
                      \o << [op |-> op, before |-> getGainDb(AuxNow),
                             writes |-> r.writes] >>
    /\ AuxKept

SetGainDb(newDb) == AuxCallDone("setGainDb", setGainDb(AuxNow, newDb))

SetMute(b) ==
    AuxCallDone(IF b THEN "setMute(true)" ELSE "setMute(false)", setMute(AuxNow, b))

NextAux ==
    \/ \E newDb \in GainInputs : SetGainDb(newDb)
    \/ \E b \in BOOLEAN : SetMute(b)

SpecAux == Init /\ [][NextAux]_vars

(***************************************************************************)
(* The plugin's life: initialise and initialiseWithoutStopping at any      *)
(* sample rate, deinitialise, the property changes, and blocks and device  *)
(* I/O between them.                                                       *)
(***************************************************************************)
SampleRates == {44100, 48000}

LifeProperties == {"inputDevice", "outputDevice", "manualAdjustMs"}

NextLife ==
    \/ \E b \in 1..MaxBlockSize : \E r \in SampleRates :
         InitialiseAt(b, r) /\ UNCHANGED histVars
    \/ \E b \in 1..MaxBlockSize : \E r \in SampleRates :
         InitialiseWithoutStopping(b, r) /\ UNCHANGED histVars
    \/ Deinitialise /\ UNCHANGED histVars
    \/ \E c \in LockRunContexts : ApplyToBuffer(c) /\ UNCHANGED histVars
    \/ \E v \in LockRunSendViews : FillSendBuffer(v) /\ UNCHANGED histVars
    \/ \E v \in LockRunReturnViews :
         /\ Len(returnMidiBuffer) + Len(v.midi) <= MaxPending
         /\ FillReturnBuffer(v)
         /\ UNCHANGED histVars
    \/ \E i \in LifeProperties : \E v \in PropertyValues(i) : SetProperty(i, v)

SpecLife == Init /\ [][NextLife]_vars

\* device enumeration: any device manager
InitEnum ==
    \E dm \in DeviceManagers :
        Constructed(dm[1], dm[2],
                    [name |-> "", inputDevice |-> "", outputDevice |-> "",
                     manualAdjustMs |-> 0])

NextEnum ==
    \E forInput \in BOOLEAN, intoEmpty \in BOOLEAN :
        GetPossibleDeviceNames(forInput, intoEmpty)

SpecEnum == InitEnum /\ [][NextEnum]_vars

(***************************************************************************)
(* Device enumeration and resolution: the claims.                          *)
(***************************************************************************)
\* what a direction's device list is to hold: the enabled devices, without
\* the MIDI outputs connected to an external controller
IsListed(d) == d.enabled /\ ~ (d.isMidi /\ d.ext)
Listed(devs) == SelectSeq(devs, IsListed)

\* the capability a listed device is classified with
Classified(d) == IF d.isMidi THEN midiDevice ELSE audioDevice

\* the resolution of a name against one direction's list
ResolvedAgainst(devs, n) ==
    LET l == Listed(devs)
        i == IndexOf([k \in 1..Len(l) |-> l[k].name], n)
    IN  IF i >= 0 THEN Classified(l[i + 1]) ELSE noDevice

\* C7: after updateDeviceTypes each direction's tag is the classified
\* capability of the device at the configured name's index in that
\* direction's own list, and noDevice when the name is not in that list.
C7_ResolvedPerDirection ==
    /\ returnDeviceType = ResolvedAgainst(inputDevices, inputDevice)
    /\ sendDeviceType = ResolvedAgainst(outputDevices, outputDevice)

\* C8: the send tag does not depend on the input devices: any other list of
\* input devices beside the same output devices and the same outputDevice
\* name resolves to the same send tag.
C8_SendIndependentOfInputs ==
    \A otherIns \in SeqsUpTo(InputDevice, MaxDevices) :
        ResolveSend(otherIns, outputDevices, outputDevice) = sendDeviceType

\* C9: getPossibleDeviceNames into empty arrays lists exactly the enabled
\* devices of the direction, in device-manager order, without the MIDI
\* outputs connected to an external controller; every index has exactly one
\* of the hasAudio/hasMidi bits, hasMidi iff the device there is a MIDI
\* device; names and aliases have equal length.
C9_EnumerationExact ==
    (lastOp = "getPossibleDeviceNames" /\ lastArg.intoEmpty) =>
        LET l == Listed(IF lastArg.forInput THEN inputDevices ELSE outputDevices)
            idx == 0..(Len(l) - 1)
        IN  /\ enumResult.s = [k \in 1..Len(l) |-> l[k].name]
            /\ enumResult.a = [k \in 1..Len(l) |-> l[k].alias]
            /\ Len(enumResult.s) = Len(enumResult.a)
            /\ enumResult.hasAudio \cup enumResult.hasMidi = idx
            /\ enumResult.hasAudio \cap enumResult.hasMidi = {}
            /\ \A k \in idx : (k \in enumResult.hasMidi) <=> l[k + 1].isMidi

\* C9 witness: an output enumeration into empty arrays that skipped a
\* disabled device and a MIDI output connected to an external controller
C9_Witness ==
    /\ lastOp = "getPossibleDeviceNames" /\ lastArg.intoEmpty /\ ~ lastArg.forInput
    /\ Len(outputDevices) = 2
    /\ \E k \in 1..2 : outputDevices[k].enabled /\ outputDevices[k].ext
    /\ \E k \in 1..2 : ~ outputDevices[k].enabled
    /\ enumResult.s = <<>>

\* C10: in every state the tags are the resolution of the current names
\* against the current devices: the constructor resolves, and a change of
\* inputDevice or of outputDevice and a change of the enabled devices
\* re-resolve; a change of another property (name, manualAdjustMs) runs no
\* re-resolution, so it leaves both tags as they were.
C10_ReresolvedOnChange ==
    /\ inputDevice = state.inputDevice
    /\ outputDevice = state.outputDevice
    /\ returnDeviceType = ResolveReturn(inputDevices, state.inputDevice)
    /\ sendDeviceType = ResolveSend(inputDevices, outputDevices, state.outputDevice)
    /\ lastOp = "deviceSetChanged" => ranUpdate
    /\ lastOp = "setProperty" => (ranUpdate <=> lastArg.isDeviceName)

\* C10 witness: a change of inputDevice has changed the return tag
C10_Witness ==
    /\ lastOp = "setProperty" /\ lastArg.isDeviceName /\ ranUpdate
    /\ state.inputDevice = "B" /\ state.outputDevice = ""
    /\ returnDeviceType = midiDevice
    /\ \E k \in 1..Len(inputDevices) : inputDevices[k].name = "A" /\ inputDevices[k].enabled

(***************************************************************************)
(* Block processing: the claims.                                           *)
(***************************************************************************)
\* the samples of buffer b in the block's range are all 0
RangeSilent(b, start, num) ==
    \A ch \in 1..NumChannels(b) : \A f \in (start + 1)..(start + num) : b[ch][f] = 0

\* buffer b holds some sample that is not 0
Sounds(b) == \E ch \in 1..NumChannels(b) : \E f \in 1..NumFrames(b) : b[ch][f] # 0

\* C1: whatever the two tags are, after applyToBuffer on a context with a
\* destination buffer and a MIDI list, every sample of the block's range is
\* 0 or the return buffer's sample for that channel and frame, none is the
\* track's signal, and every event of the live MIDI list was in the return
\* MIDI buffer.
C1_NoPassThrough ==
    \A c \in AudioRunContexts :
        (c.hasDest /\ c.hasMidi) =>
            LET r  == applyToBuffer(c)
                st == c.bufferStartSample
                d  == r.fc.destBuffer
            IN  /\ \A ch \in 1..NumChannels(d) :
                     \A f \in (st + 1)..(st + c.bufferNumSamples) :
                        /\ d[ch][f] <= 0
                        /\ \/ d[ch][f] = 0
                           \/ /\ ch <= NumChannels(returnBuffer)
                              /\ f - st <= NumFrames(returnBuffer)
                              /\ d[ch][f] = returnBuffer[ch][f - st]
                /\ \A e \in Events(r.fc.midi) :
                     /\ e[1] # "live"
                     /\ Count(e, r.fc.midi) <= Count(e, returnMidiBuffer)

\* C1 witness: blocks have been captured, and a block now gets return
\* signal in its range and a return event in its MIDI list
C1_Witness ==
    /\ Sounds(sendBuffer)
    /\ Sounds(returnBuffer)
    /\ returnMidiBuffer # <<>>
    /\ \E c \in AudioRunContexts :
         /\ c.hasDest /\ c.hasMidi /\ c.midi # <<>>
         /\ LET r == applyToBuffer(c)
            IN  /\ ~ RangeSilent(r.fc.destBuffer, c.bufferStartSample, c.bufferNumSamples)
                /\ \E ch \in 1..NumChannels(r.fc.destBuffer) :
                     r.fc.destBuffer[ch][c.bufferStartSample + 1] = 0
    /\ \E c \in AudioRunContexts :
         c.hasDest /\ c.hasMidi /\ c.midi # <<>>

\* C2: with send capability None, applyToBuffer clears the block's range of
\* the destination buffer and the live MIDI list, and leaves sendBuffer,
\* sendMidiBuffer, returnBuffer and returnMidiBuffer as they were, whatever
\* the return capability and the buffers' contents.
C2_EarlyExitFrame ==
    sendDeviceType = noDevice =>
        \A c \in AudioRunContexts :
            LET r == applyToBuffer(c)
            IN  /\ r.sendBuffer = sendBuffer
                /\ r.sendMidiBuffer = sendMidiBuffer
                /\ r.returnBuffer = returnBuffer
                /\ r.returnMidiBuffer = returnMidiBuffer
                /\ c.hasDest => RangeSilent(r.fc.destBuffer, c.bufferStartSample,
                                            c.bufferNumSamples)
                /\ c.hasMidi => r.fc.midi = <<>>

\* C2 witness: send capability None with all four buffers holding signal
C2_Witness ==
    /\ sendDeviceType = noDevice
    /\ returnDeviceType = midiDevice
    /\ Sounds(sendBuffer)
    /\ Sounds(returnBuffer)
    /\ sendMidiBuffer # <<>>
    /\ returnMidiBuffer # <<>>

\* C3: with send capability Audio and return capability None, after
\* applyToBuffer the block's range of the destination buffer is all 0;
\* sendBuffer equals the destination's content before the call over the
\* channels and frames that sendBuffer and the destination (from
\* bufferStartSample on) have in common and is unchanged elsewhere; nothing
\* of the return buffers is in the live block, and they are unchanged.
C3_SendAudioOnly ==
    (sendDeviceType = audioDevice /\ returnDeviceType = noDevice) =>
        \A c \in AudioRunContexts :
            LET r  == applyToBuffer(c)
                st == c.bufferStartSample
                chs == Min(NumChannels(sendBuffer), NumChannels(c.destBuffer))
                frs == Min(NumFrames(sendBuffer), NumFrames(c.destBuffer) - st)
            IN  /\ c.hasDest =>
                     /\ RangeSilent(r.fc.destBuffer, st, c.bufferNumSamples)
                     /\ \A ch \in 1..NumChannels(r.fc.destBuffer) :
                          \A f \in 1..NumFrames(r.fc.destBuffer) :
                             r.fc.destBuffer[ch][f] >= 0
                     /\ NumChannels(r.sendBuffer) = NumChannels(sendBuffer)
                     /\ NumFrames(r.sendBuffer) = NumFrames(sendBuffer)
                     /\ \A ch \in 1..NumChannels(sendBuffer) :
                          \A f \in 1..NumFrames(sendBuffer) :
                             r.sendBuffer[ch][f] =
                                IF ch <= chs /\ f <= frs
                                THEN c.destBuffer[ch][st + f]
                                ELSE sendBuffer[ch][f]
                /\ c.hasMidi => r.fc.midi = <<>>
                /\ r.returnBuffer = returnBuffer
                /\ r.returnMidiBuffer = returnMidiBuffer

\* C3 witness: a one-channel block starting at frame 1 has been captured
\* into a two-frame sendBuffer, and the return buffers hold signal
C3_Witness ==
    /\ sendDeviceType = audioDevice
    /\ returnDeviceType = noDevice
    /\ sendBuffer = << <<LiveSample(1, 2), 0>>, <<0, 0>> >>
    /\ Sounds(returnBuffer)
    /\ returnMidiBuffer # <<>>

\* the events of s that list t does not hold
Missing(s, t) == { e \in Events(s) : Count(e, t) = 0 }

\* C4 as stated: with return capability Midi, the restore step of every
\* applyToBuffer call on a context with a MIDI list moves every pushed event
\* into the live list and leaves returnMidiBuffer empty; no pushed event is
\* delivered twice; fillReturnBuffer leaves the caller's list as it was.
C4_ReturnMidiDelivered ==
    /\ returnDeviceType = midiDevice =>
         \A c \in MidiRunContexts(nextId) :
            c.hasMidi =>
               LET r == applyToBuffer(c)
               IN  /\ r.returnMidiBuffer = <<>>
                   /\ Missing(returnMidiBuffer, r.fc.midi) = {}
    /\ \A e \in pushed : Count(e, liveLog) <= 1
    /\ \A v \in MidiRunReturnViews(nextId) : fillReturnBuffer(v).io = v

\* C4 amended: with return capability Midi, a block on a context with a MIDI
\* list moves every event of returnMidiBuffer into the live list and leaves
\* the buffer empty when the send capability is not None; when the send
\* capability is None, or the context has no MIDI list, the block leaves
\* returnMidiBuffer as it was.  Every pushed event is, exactly once, in
\* returnMidiBuffer, in a block's live list, or discarded by deinitialise;
\* only pushed events reach a live list; fillReturnBuffer leaves the
\* caller's list as it was.
C4_DeliveredOnceUnlessEarlyExit ==
    /\ returnDeviceType = midiDevice =>
         \A c \in MidiRunContexts(nextId) :
            LET r == applyToBuffer(c)
            IN  IF sendDeviceType # noDevice /\ c.hasMidi
                THEN /\ r.returnMidiBuffer = <<>>
                     /\ r.fc.midi = returnMidiBuffer
                ELSE /\ r.returnMidiBuffer = returnMidiBuffer
                     /\ c.hasMidi => r.fc.midi = <<>>
    /\ \A e \in pushed :
         Count(e, returnMidiBuffer) + Count(e, liveLog)
            + (IF e \in discarded THEN 1 ELSE 0) = 1
    /\ Events(liveLog) \subseteq pushed
    /\ Events(returnMidiBuffer) \subseteq pushed
    /\ \A v \in MidiRunReturnViews(nextId) : fillReturnBuffer(v).io = v

\* C4 witness: an event pushed by fillReturnBuffer has reached a block's
\* live list, a later one waits in returnMidiBuffer, and the send
\* capability is now None
C4_Witness ==
    /\ returnDeviceType = midiDevice
    /\ sendDeviceType = noDevice
    /\ \E e \in pushed : Count(e, liveLog) = 1
    /\ returnMidiBuffer # <<>>
    /\ \E c \in MidiRunContexts(nextId) : c.hasMidi

\* C5: with send capability Midi, fillSendBuffer hands the caller exactly
\* the events of sendMidiBuffer and leaves the buffer empty; sendMidiBuffer
\* is empty or is the MIDI list of the latest capturing block, none of it
\* pulled yet; a capturing block leaves exactly its own MIDI list in the
\* buffer; no captured event is pulled twice.
C5_SendMidiPulledOnce ==
    /\ sendDeviceType = midiDevice =>
         /\ \A v \in MidiRunSendViews :
               v.hasMidi =>
                  LET r == fillSendBuffer(v)
                  IN  /\ r.io.midi = sendMidiBuffer
                      /\ r.sendMidiBuffer = <<>>
         /\ \A c \in MidiRunContexts(nextId) :
               c.hasMidi => applyToBuffer(c).sendMidiBuffer = c.midi
    /\ \/ sendMidiBuffer = <<>>
       \/ /\ sendMidiBuffer = captured
          /\ \A e \in Events(captured) : Count(e, deviceLog) = 0
    /\ \A e \in Events(deviceLog) : Count(e, deviceLog) = 1

\* C5 witness: a block's events have been pulled, and a later block's
\* events wait in sendMidiBuffer while a further block is processed
C5_Witness ==
    /\ sendDeviceType = midiDevice
    /\ deviceLog # <<>>
    /\ sendMidiBuffer # <<>>
    /\ \E c \in MidiRunContexts(nextId) : c.hasMidi /\ c.midi # <<>>
    /\ \E v \in MidiRunSendViews : v.hasMidi

\* C6: at most one thread is between the first and the last buffer access
\* of applyToBuffer, fillSendBuffer, fillReturnBuffer, the resize section
\* of initialise and deinitialise; a thread there holds bufferLock; and a
\* step that changes one of the four buffers is a step of the thread that
\* holds bufferLock.
C6_MutualExclusion ==
    /\ [](/\ \A t, u \in Threads : (InSection(t) /\ InSection(u)) => t = u
          /\ \A t \in Threads : InSection(t) => bufferLock = t
          /\ bufferLock # NoThread => InSection(bufferLock))
    /\ [][bufVars' # bufVars =>
             \E t \in Threads : bufferLock = t /\ pc'[t] # pc[t]]_vars

\* C6 witness: the render thread is inside applyToBuffer after the capture
\* of a block, the control thread inside initialise but past its locked
\* section, and the I/O threads have not entered
C6_Witness ==
    /\ pc["render"] = "clear"
    /\ bufferLock = "render"
    /\ Sounds(sendBuffer)
    /\ pc["control"] = "latency"
    /\ pc["output"] = "idle"
    /\ pc["input"] = "idle"

(***************************************************************************)
(* AuxSendPlugin: the claims.                                              *)
(***************************************************************************)
\* the latest call was op
JustDid(op) == auxCalls # <<>> /\ auxCalls[Len(auxCalls)].op = op

\* the latest two calls were setMute(true) and then setMute(false)
MutedThenUnmuted ==
    /\ Len(auxCalls) = 2
    /\ auxCalls[1].op = "setMute(true)"
    /\ auxCalls[2].op = "setMute(false)"

\* C11: after setMute(true) followed by setMute(false), the gain is within
\* 0.01 dB of the gain before setMute(true), or, when that gain was at or
\* below -100 dB, it is 0 dB.
C11_MuteRoundTrip ==
    MutedThenUnmuted =>
        LET pre == auxCalls[1].before
            now == getGainDb(AuxNow)
        IN  IF pre <= MuteFloorDb
            THEN now = 0
            ELSE now - pre \in (0 - NudgeDb)..NudgeDb

\* C12 as stated: setMute(true) leaves the gain it found in
\* lastVolumeBeforeMute and the parameter sees two value changes, to that
\* gain less 0.01 dB and then to -100 dB; setMute(false) makes the
\* parameter see two value changes, to the gain it found plus 0.01 dB and
\* then to the restored gain.
C12_TwoDistinctWrites ==
    /\ JustDid("setMute(true)") =>
         LET c == auxCalls[Len(auxCalls)]
         IN  /\ lastVolumeBeforeMute = c.before
             /\ c.writes = << decibelsToVolumeFaderPosition(c.before - NudgeDb),
                              decibelsToVolumeFaderPosition(MuteFloorDb) >>
             /\ c.writes[1] # decibelsToVolumeFaderPosition(c.before)
             /\ c.writes[2] # c.writes[1]
    /\ JustDid("setMute(false)") =>
         LET c == auxCalls[Len(auxCalls)]
         IN  /\ c.writes = << decibelsToVolumeFaderPosition(c.before + NudgeDb),
                              decibelsToVolumeFaderPosition(lastVolumeBeforeMute) >>
             /\ c.writes[1] # decibelsToVolumeFaderPosition(c.before)
             /\ c.writes[2] # c.writes[1]

\* the value changes the parameter sees when it is at position from and is
\* written first, then second
Seen(from, first, second) ==
    (IF first # from THEN <<first>> ELSE <<>>)
       \o (IF second # first THEN <<second>> ELSE <<>>)

\* C12 amended: setMute(true) leaves the gain it found in
\* lastVolumeBeforeMute and writes that gain less 0.01 dB, then -100 dB;
\* setMute(false) writes the gain it found plus 0.01 dB (no further than
\* the fader's end), then lastVolumeBeforeMute; the parameter sees each
\* write that differs from its value at that moment, in that order.  So it
\* sees two changes at setMute(true) when the gain was above -99.99 dB, and
\* two at setMute(false) when the gain was below the fader's end and
\* lastVolumeBeforeMute is not that gain plus 0.01 dB.
C12_WritesSeenWhenDifferent ==
    /\ JustDid("setMute(true)") =>
         LET c == auxCalls[Len(auxCalls)]
             first == decibelsToVolumeFaderPosition(c.before - NudgeDb)
         IN  /\ lastVolumeBeforeMute = c.before
             /\ c.writes = Seen(decibelsToVolumeFaderPosition(c.before), first, 0)
             /\ c.before > MuteFloorDb + NudgeDb => c.writes = <<first, 0>>
    /\ JustDid("setMute(false)") =>
         LET c == auxCalls[Len(auxCalls)]
             from == decibelsToVolumeFaderPosition(c.before)
             first == IF from = FaderRangeEnd THEN from
                      ELSE decibelsToVolumeFaderPosition(c.before + NudgeDb)
             second == decibelsToVolumeFaderPosition(lastVolumeBeforeMute)
         IN  /\ c.writes = Seen(from, first, second)
             /\ (from < FaderRangeEnd /\ lastVolumeBeforeMute # c.before + NudgeDb)
                   => c.writes = <<first, second>>

\* C12 witness: a gain of 0 dB was muted, with two value changes, and then
\* unmuted, with two value changes
C12_Witness ==
    /\ MutedThenUnmuted
    /\ auxCalls[1].before = 0
    /\ Len(auxCalls[1].writes) = 2
    /\ Len(auxCalls[2].writes) = 2
    /\ getGainDb(AuxNow) = 0

\* C18 as stated: right after setMute(true) isMute() is true, and right
\* after setMute(false) isMute() is false.
C18_MuteAgrees ==
    /\ JustDid("setMute(true)") => isMute(AuxNow)
    /\ JustDid("setMute(false)") => ~ isMute(AuxNow)

\* C18 amended: right after setMute(true) isMute() is true; right after
\* setMute(false) the gain is lastVolumeBeforeMute, and isMute() is true
\* exactly when that gain is at or below -90 dB.
C18_MuteAgreesAboveThreshold ==
    /\ JustDid("setMute(true)") => isMute(AuxNow)
    /\ JustDid("setMute(false)") =>
         /\ getGainDb(AuxNow) = lastVolumeBeforeMute
         /\ isMute(AuxNow) <=> lastVolumeBeforeMute <= IsMuteDb

\* C18 witness: a gain of -95 dB was muted and then unmuted, and isMute()
\* is still true
C18_Witness ==
    /\ MutedThenUnmuted
    /\ auxCalls[1].before = IsMuteDb - 500
    /\ getGainDb(AuxNow) = IsMuteDb - 500
    /\ isMute(AuxNow)

(***************************************************************************)
(* The plugin's life: the claims.                                          *)
(***************************************************************************)
\* the sizes of the two audio buffers
BufferSizes == << NumChannels(sendBuffer), NumFrames(sendBuffer),
                  NumChannels(returnBuffer), NumFrames(returnBuffer) >>

\* C13 as stated: once initialise has been called, sendBuffer and
\* returnBuffer have as many frames as the block size of the latest
\* initialise call; and only initialise and deinitialise change the size of
\* either buffer.
C13_FramesAreBlockSize ==
    /\ [](initBlockSize # 0 =>
             /\ NumFrames(sendBuffer) = initBlockSize
             /\ NumFrames(returnBuffer) = initBlockSize)
    /\ [][BufferSizes' # BufferSizes =>
             \/ initBlockSize' = NumFrames(sendBuffer')
             \/ sendBuffer' = <<>> /\ returnBuffer' = <<>>]_vars

\* C13 amended: sendBuffer and returnBuffer are both empty (before the
\* first initialise and after a deinitialise) or both have two channels and
\* as many frames as the block size of the latest initialise call; the size
\* of either buffer changes only in a step of initialise or deinitialise.
C13_FramesAreBlockSizeUntilDeinitialise ==
    /\ [](\/ sendBuffer = <<>> /\ returnBuffer = <<>>
          \/ /\ initBlockSize # 0
             /\ BufferSizes = <<2, initBlockSize, 2, initBlockSize>>)
    /\ [][BufferSizes' # BufferSizes =>
             \/ \E b \in 1..MaxBlockSize : \E r \in SampleRates : InitialiseAt(b, r)
             \/ Deinitialise]_vars
    /\ [][(\E b \in 1..MaxBlockSize : \E r \in SampleRates : InitialiseAt(b, r))
             => BufferSizes' = <<2, initBlockSize', 2, initBlockSize'>>]_vars
    /\ [][Deinitialise => BufferSizes' = <<0, 0, 0, 0>>]_vars

\* C13 witness: the plugin was initialised with the largest block size,
\* captured a block and was given return signal, and an
\* initialiseWithoutStopping with another block size came after
C13_Witness ==
    /\ initBlockSize = MaxBlockSize
    /\ BufferSizes = <<2, MaxBlockSize, 2, MaxBlockSize>>
    /\ Sounds(sendBuffer)
    /\ Sounds(returnBuffer)
    /\ latencySeconds = Fraction(1, 44100)

\* an initialise or initialiseWithoutStopping call with block size b and
\* sample rate r
Initialises(b, r) == InitialiseAt(b, r) \/ InitialiseWithoutStopping(b, r)

\* C15: an initialise or initialiseWithoutStopping call with block size B
\* and sample rate R sets latencySeconds to M/1000 + B/R for the
\* manualAdjustMs M of that moment (31/1500 for B = 512, R = 48000, M = 10);
\* no other step changes latencySeconds, and a change of manualAdjustMs
\* leaves it as it was.
C15_LatencyAtInitialise ==
    /\ [](initialiseWithoutStopping(10, 512, 48000) = <<31, 1500>>)
    /\ [][\A b \in 1..MaxBlockSize : \A r \in SampleRates :
             Initialises(b, r) =>
                latencySeconds' = Fraction(state.manualAdjustMs * r + 1000 * b,
                                           1000 * r)]_vars
    /\ [][latencySeconds' # latencySeconds =>
             \E b \in 1..MaxBlockSize : \E r \in SampleRates : Initialises(b, r)]_vars
    /\ [][state'.manualAdjustMs # state.manualAdjustMs =>
             latencySeconds' = latencySeconds]_vars

\* C15 witness: the latency was computed for block size 1 at 48000 Hz with
\* manualAdjustMs 10, and manualAdjustMs has since been set to 0
C15_Witness ==
    /\ latencySeconds = Fraction(10 * 48000 + 1000, 1000 * 48000)
    /\ state.manualAdjustMs = 0
    /\ initBlockSize # 0

\* the render thread takes the last step of a block: the early-exit test
\* and the restore
BlockEnds == pc["render"] = "restore" /\ pc'["render"] = "idle"

\* C16: the sendDeviceType a block finds at its early-exit test is the one
\* its capture step acted on (so it does not restore after a capture for
\* noDevice, and does not take the early exit after a capture for a
\* device), and a block that restores reads returnDeviceType while the
\* control thread is not between the two writes of updateDeviceTypes.
C16_OneTagPairPerBlock ==
    [][BlockEnds =>
          /\ sendDeviceType = tagsRead
          /\ sendDeviceType # noDevice => pc["control"] # "updateSend"]_vars

(***************************************************************************)
(* Block processing: further claims.                                       *)
(***************************************************************************)
\* the call's result r leaves the four buffers as they are
BuffersKept(r) ==
    /\ r.sendBuffer = sendBuffer
    /\ r.sendMidiBuffer = sendMidiBuffer
    /\ r.returnBuffer = returnBuffer
    /\ r.returnMidiBuffer = returnMidiBuffer

\* the view a call with capability tag would use is null
Inactive(tag, v) ==
    \/ tag = noDevice
    \/ tag = audioDevice /\ ~ v.hasAudio
    \/ tag = midiDevice /\ ~ v.hasMidi

\* C14: fillSendBuffer and fillReturnBuffer with capability None, or with a
\* null view for the configured capability, leave the four buffers and the
\* caller's views as they were; applyToBuffer with a null destination
\* buffer and a null MIDI list leaves the four buffers as they were.
C14_InactiveNoEffect ==
    /\ \A v \in AudioRunSendViews :
          Inactive(sendDeviceType, v) =>
             LET r == fillSendBuffer(v) IN BuffersKept(r) /\ r.io = v
    /\ \A v \in AudioRunReturnViews :
          Inactive(returnDeviceType, v) =>
             LET r == fillReturnBuffer(v) IN BuffersKept(r) /\ r.io = v
    /\ \A c \in AudioRunContexts :
          (~ c.hasDest /\ ~ c.hasMidi) =>
             LET r == applyToBuffer(c) IN BuffersKept(r) /\ r.fc = c

\* C14 witness: the return capability is Audio and the send capability
\* Midi, all four buffers hold signal, and the callers come with the views
\* of the other kind only
C14_Witness ==
    /\ returnDeviceType = audioDevice
    /\ sendDeviceType = midiDevice
    /\ Sounds(sendBuffer) /\ Sounds(returnBuffer)
    /\ sendMidiBuffer # <<>> /\ returnMidiBuffer # <<>>
    /\ \E v \in AudioRunReturnViews : ~ v.hasAudio /\ v.hasMidi /\ v.midi # <<>>
    /\ \E v \in AudioRunSendViews : v.hasAudio /\ ~ v.hasMidi

\* C17: applyToBuffer leaves the samples of the destination buffer outside
\* the block's range [bufferStartSample, bufferStartSample +
\* bufferNumSamples) as they were, and every sample its capture step puts
\* into sendBuffer is the destination buffer's sample of a frame inside the
\* range.
C17_ConfinedToBlockRange ==
    \A c \in AudioRunContexts :
        c.hasDest =>
            LET r  == applyToBuffer(c)
                st == c.bufferStartSample
                nm == c.bufferNumSamples
            IN  /\ \A ch \in 1..NumChannels(c.destBuffer) :
                      \A f \in 1..NumFrames(c.destBuffer) :
                         (f <= st \/ f > st + nm) =>
                            r.fc.destBuffer[ch][f] = c.destBuffer[ch][f]
                /\ \A ch \in 1..NumChannels(sendBuffer) :
                      \A f \in 1..NumFrames(sendBuffer) :
                         \/ r.sendBuffer[ch][f] = sendBuffer[ch][f]
                         \/ /\ f <= nm
                            /\ ch <= NumChannels(c.destBuffer)
                            /\ r.sendBuffer[ch][f] = c.destBuffer[ch][st + f]

\* C19 as stated: with return capability Midi, applyToBuffer on a context
\* with a MIDI list leaves returnMidiBuffer empty; and returnMidiBuffer
\* holds only events pushed since the latest applyToBuffer call.
C19_ReturnMidiOneBlock ==
    /\ returnDeviceType = midiDevice =>
          \A c \in MidiRunContexts(nextId) :
             c.hasMidi => Len(applyToBuffer(c).returnMidiBuffer) = 0
    /\ Events(returnMidiBuffer) \subseteq sinceBlock

\* C19 amended: applyToBuffer leaves returnMidiBuffer empty when the return
\* capability is Midi, the send capability is not None and the context has
\* a MIDI list, and leaves it as it was otherwise; returnMidiBuffer holds,
\* in the order pushed, exactly the events pushed since such a block or
\* deinitialise last emptied it.
C19_ReturnMidiSinceDrain ==
    /\ \A c \in MidiRunContexts(nextId) :
          applyToBuffer(c).returnMidiBuffer =
             IF RestoreDrains(sendDeviceType, returnDeviceType, c)
             THEN <<>> ELSE returnMidiBuffer
    /\ returnMidiBuffer = sinceDrain

\* C19 witness: returnMidiBuffer holds the events of two pushes, the first
\* of them from before the latest block
C19_Witness ==
    /\ returnDeviceType = midiDevice
    /\ Len(returnMidiBuffer) >= 2
    /\ sinceBlock # {}
    /\ Events(returnMidiBuffer) \ sinceBlock # {}
    /\ liveLog # <<>>

=============================================================================
